---- MODULE Spec2Model ----
(***************************************************************************)
(* State-machine model of the Arctis ChatMix daemon (src/main.rs): the     *)
(* supervisor (ArctisController::start / try_connect_and_run), the USB     *)
(* locator (usb_find_and_open) with the side-tone writer                   *)
(* (try_hidapi_sidetone_from_env), the report reader (read_loop), the      *)
(* audio router calls (setup_virtual_sinks,                                *)
(* relink_virtual_sinks_with_retry, move_all_inputs_to, cleanup) and the   *)
(* Ctrl-C handler, together with the parts of the USB bus and of the audio *)
(* server those calls act on.                                              *)
(***************************************************************************)
EXTENDS Integers, Sequences, FiniteSets

\* ---- program constants -------------------------------------------------
MAX_ERRORS == 5
RETRIES == 10
CLAIM_RETRIES == 6
ReportTag == 69
ShapeLen == 3
HidClass == 3
DefaultEndpoint == 132
SidetoneCmd == 57
U8Max == 255

\* ---- bounds of the model -------------------------------------------------
\* Longest interrupt read the device delivers (the buffer holds 64 bytes).
MaxReadLen == 3
\* Number of audio streams playing on the audio server.
NStreams == 2
\* Longest list of interfaces in the headset's configuration descriptor.
MaxIfaces == 2

\* ---- value sets ----------------------------------------------------------
GAME == "Arctis_Game"
CHAT == "Arctis_Chat"
HEADSET == "Headset"
SPEAKERS == "Speakers"

\* Byte values a report can carry: the volume tag, and one value above 100.
DataVals == {ReportTag, 200}

Channels == {"FL", "FR"}
AllLinks == {GAME, CHAT} \X Channels
Streams == 1..NStreams

\* A report is the byte sequence one interrupt read returns.
AllReports == UNION {[1..n -> DataVals] : n \in 0..MaxReadLen}
\* The shortest read, one malformed report and one volume report.
FewReports == {<<>>, <<200, ReportTag>>, <<ReportTag, 200, ReportTag>>}

\* What the USB bus shows of the headset.
\*   nousb    libusb cannot be initialised or enumerated
\*   absent   no device with the vendor/product id is attached
\*   unusable the device is attached but cannot be opened
\*   busy     the device opens, claiming its interface fails
\*   ready    the device opens and its interface can be claimed
DevStates == {"nousb", "absent", "unusable", "busy", "ready"}

\* ---- the headset's configuration descriptor ---------------------------------
\* An interface is given by its kind; its number is its place in the list,
\* counted from 0, and its endpoint addresses follow from its number.
\*   vendor    class 255, one inbound interrupt endpoint
\*   hid_noin  class 3, an outbound interrupt and an inbound bulk endpoint
\*   hid       class 3, an outbound interrupt endpoint, then two inbound
\*             interrupt endpoints
IfaceKinds == {"vendor", "hid_noin", "hid"}

Endpoint(t, d, a) == [type |-> t, dir |-> d, addr |-> a]

\* The first alternate setting of the interface at place i of cfg.
Descriptor(cfg, i) ==
    LET n == i - 1
        base == 16 * i
    IN  [num |-> n,
         class |-> IF cfg[i] = "vendor" THEN 255 ELSE HidClass,
         eps |-> CASE cfg[i] = "vendor" ->
                        << Endpoint("Interrupt", "In", 128 + base + 1) >>
                   [] cfg[i] = "hid_noin" ->
                        << Endpoint("Interrupt", "Out", base + 1),
                           Endpoint("Bulk", "In", 128 + base + 2) >>
                   [] OTHER ->
                        << Endpoint("Interrupt", "Out", base + 1),
                           Endpoint("Interrupt", "In", 128 + base + 2),
                           Endpoint("Interrupt", "In", 128 + base + 3) >>]

AllConfigs == UNION {[1..n -> IfaceKinds] : n \in 1..MaxIfaces}
\* The headset as sold: one interface of another class, then its HID
\* interface.
StdConfig == <<"vendor", "hid">>

\* ---- the side-tone environment ---------------------------------------------
\* ARCTIS_SIDETONE_DISABLE: unset, one of 1/yes/true/on, or another text.
\* ARCTIS_SIDETONE_PERCENT: unset, a text that is no u8, or a u8.
\* value is the u8 when percent is "u8", and 0 otherwise.
SidetoneVars(d, p, v) == [disable |-> d, percent |-> p, value |-> v]
SidetoneUnset == SidetoneVars("unset", "unset", 0)
FewSidetoneEnvs ==
    { SidetoneUnset,
      SidetoneVars("on", "u8", 45),
      SidetoneVars("other", "unset", 0),
      SidetoneVars("unset", "u8", 45),
      SidetoneVars("unset", "u8", 200),
      SidetoneVars("unset", "invalid", 0) }
\* What HidApi::new, open and write can do: all succeed, or the first that
\* fails.
HidOutcomes == {"ok", "init", "open", "write"}

VARIABLES
    pc,                     \* position of the main thread
    running,                \* ArctisController.running
    sinks_created,          \* ArctisController.sinks_created
    original_default_sink,  \* ArctisController.original_default_sink
    attempt,                \* loop variable of the claim / relink retry loop
    claimed,                \* the interface is claimed on the open handle
    consecutive_errors,     \* read_loop local
    buf,                    \* read_loop local, bytes 0..2 of the buffer
    lastOutcome,            \* outcome of the latest read_interrupt
    lastLen,                \* length returned by the latest successful read
    volCalls,               \* set_sink_volume calls made for the latest read
    res,                    \* result of the latest read_loop
    cleanupLog,             \* commands issued by cleanup, in order
    cleanupCount,           \* number of cleanup invocations
    exitStatus,             \* process exit status, -1 while running
    cancelAt,               \* where Ctrl-C found the main thread, "" before it
    errRun,                 \* transport errors since the latest success/timeout
    runBroken,              \* a success or timeout ended an error run this session
    dev,                    \* USB bus: state of the headset
    physSink,               \* audio server: the headset sink is listed
    gameSink,               \* audio server: node Arctis_Game exists
    chatSink,               \* audio server: node Arctis_Chat exists
    links,                  \* audio server: monitor->playback links present
    defaultSink,            \* audio server: the default sink
    onGame,                 \* audio server: streams playing on Arctis_Game
    streams,                \* audio server: the streams that are playing
    linkFaults,             \* audio server: pw-link may fail on present ports
    reports,                \* headset: the reports its firmware sends
    config,                 \* headset: the interfaces of its configuration 0
    sidetoneEnv,            \* process environment: the side-tone variables
    loc,                    \* the latest usb_find_and_open: what it did
    releaseLog,             \* release_interface results of the call of
                            \* try_connect_and_run that start has not yet judged
    mig,                    \* the latest move_all_inputs_to: what it did
    relinkRes,              \* the latest found-sink relink pass: what it did
    quiet,                  \* a relink pass has run and the audio server's
                            \* sinks and links have not changed since
    setupRes                \* the latest setup_virtual_sinks: what it did

progVars == <<pc, running, sinks_created, original_default_sink, attempt,
              claimed, consecutive_errors, buf, lastOutcome, lastLen,
              volCalls, res, cleanupLog, cleanupCount, exitStatus, cancelAt,
              errRun, runBroken, loc, releaseLog, mig, relinkRes,
              setupRes>>
audioVars == <<physSink, gameSink, chatSink, links, defaultSink, onGame>>
readVars == <<consecutive_errors, buf, lastOutcome, lastLen, volCalls,
              errRun, runBroken>>
\* What a run's environment is made of; none of it changes during a run.
envPars == <<streams, linkFaults, reports, config, sidetoneEnv>>
vars == <<progVars, dev, audioVars, envPars, quiet>>

ZeroBuf == <<0, 0, 0>>

\* usb_find_and_open before it has done anything.
\*   pre      calls made on the device before the claim loop, in order
\*   sidetone what try_hidapi_sidetone_from_env did
\*   iface,ep the interface number and endpoint address picked (-1: none)
\*   claims   claim_interface calls made, failed those that returned Err
\*   calls    the calls of the latest pass of the claim loop, in order
\*   result   "none" while it runs, then "Ok" or the Err it returned
NoSidetone == [sent |-> <<>>, data |-> <<>>, res |-> "notcalled"]
\* setup_virtual_sinks before it has run.
\*   steps       the steps it went into, in order
\*   linkResults what each pw-link call reported
\*   sd          what the set-default-sink command did
\*   game, chat, links, def  the audio server's state when it returned
NoSetup ==
    [steps |-> <<>>, linkResults |-> <<>>, sd |-> "none", res |-> "none",
     game |-> FALSE, chat |-> FALSE, links |-> {}, def |-> ""]

\* move_all_inputs_to and the relink pass before they have run.
\*   relink  what relink_virtual_sinks_with_retry had returned before the move
\*   ret     what the relink returned: "Ok", "Shutdown" or "NotFound"
NoMig == [listed |-> FALSE, tried |-> {}, res |-> "none", relink |-> "none"]
NoRelink ==
    [again |-> FALSE, before |-> {}, after |-> {}, errs |-> 0,
     results |-> <<>>, ret |-> "none"]

NoLoc ==
    [pre |-> <<>>, sidetone |-> NoSidetone, iface |-> -1, ep |-> -1,
     claims |-> 0, failed |-> 0, calls |-> <<>>, result |-> "none"]

InitProg ==
    /\ pc = "new"
    /\ running = TRUE
    /\ sinks_created = FALSE
    /\ original_default_sink = ""
    /\ attempt = 0
    /\ claimed = FALSE
    /\ consecutive_errors = 0
    /\ buf = ZeroBuf
    /\ lastOutcome = "none"
    /\ lastLen = 0
    /\ volCalls = <<>>
    /\ res = "none"
    /\ cleanupLog = <<>>
    /\ cleanupCount = 0
    /\ exitStatus = -1
    /\ cancelAt = ""
    /\ errRun = 0
    /\ runBroken = FALSE
    /\ loc = NoLoc
    /\ releaseLog = <<>>
    /\ mig = NoMig
    /\ relinkRes = NoRelink
    /\ quiet = FALSE
    /\ setupRes = NoSetup

InitEnv ==
    /\ dev \in DevStates
    /\ physSink \in (IF dev = "absent" THEN {FALSE} ELSE BOOLEAN)
    /\ gameSink = FALSE
    /\ chatSink = FALSE
    /\ links = {}
    /\ defaultSink \in (IF physSink THEN {SPEAKERS, HEADSET} ELSE {SPEAKERS})
    /\ onGame = {}

\* The whole environment at work: the device comes and goes, the audio
\* server restarts and may refuse links; a firmware that sends few reports
\* and no stream playing.
Init ==
    /\ InitProg
    /\ InitEnv
    /\ streams = {}
    /\ linkFaults \in BOOLEAN
    /\ reports = FewReports
    /\ config = StdConfig
    /\ sidetoneEnv = SidetoneUnset

\* Every report up to MaxReadLen bytes; an audio server that stays up and
\* links whatever has its ports.
ReaderInit ==
    /\ InitProg
    /\ InitEnv
    /\ streams = {}
    /\ linkFaults = FALSE
    /\ reports = AllReports
    /\ config = StdConfig
    /\ sidetoneEnv = SidetoneUnset

\* ---- the audio server --------------------------------------------------
\* The audio-server state as one value, so that a function's commands can be
\* applied one after the other.
Audio ==
    [phys |-> physSink, game |-> gameSink, chat |-> chatSink,
     links |-> links, def |-> defaultSink, onGame |-> onGame]

SetAudio(a) ==
    /\ physSink' = a.phys
    /\ gameSink' = a.game
    /\ chatSink' = a.chat
    /\ links' = a.links
    /\ defaultSink' = a.def
    /\ onGame' = a.onGame

SinkExists(a, name) ==
    CASE name = GAME -> a.game
      [] name = CHAT -> a.chat
      [] name = HEADSET -> a.phys
      [] name = SPEAKERS -> TRUE
      [] OTHER -> FALSE

\* pw-cli destroy <name>: removes the node, its links and its streams.
PwDestroy(a, name, ok) ==
    IF ~ok \/ ~SinkExists(a, name) THEN a
    ELSE [a EXCEPT !.game = IF name = GAME THEN FALSE ELSE @,
                   !.chat = IF name = CHAT THEN FALSE ELSE @,
                   !.links = {l \in @ : l[1] # name},
                   !.onGame = IF name = GAME THEN {} ELSE @,
                   !.def = IF @ = name THEN SPEAKERS ELSE @]

\* pw-cli create-node adapter {... node.name=<name> ...}
PwCreate(a, name) ==
    [a EXCEPT !.game = IF name = GAME THEN TRUE ELSE @,
              !.chat = IF name = CHAT THEN TRUE ELSE @]

\* pactl set-default-sink <name>, r the command's outcome.
PactlSetDefault(a, name, r) ==
    IF r = "ok" /\ SinkExists(a, name) THEN [a EXCEPT !.def = name] ELSE a

\* pw-link <sink>:monitor_<ch> <device>:playback_<ch>
\* "exists" when the link is there already, "fail" when a port is missing or
\* the command fails for another reason (fault), "ok" when the link is made.
PwLinkResult(a, sink, ch, fault) ==
    IF <<sink, ch>> \in a.links THEN "exists"
    ELSE IF fault \/ ~SinkExists(a, sink) \/ ~a.phys THEN "fail"
    ELSE "ok"

\* link_sink_to_device that takes "exists" for a failure like any other.
link_sink_to_device_Strict(a, sink, fault) ==
    LET rl == PwLinkResult(a, sink, "FL", fault = 1)
        a1 == IF rl = "ok" THEN [a EXCEPT !.links = @ \cup {<<sink, "FL">>}]
              ELSE a
        rr == PwLinkResult(a1, sink, "FR", fault = 2)
        a2 == IF rr = "ok" THEN [a1 EXCEPT !.links = @ \cup {<<sink, "FR">>}]
              ELSE a1
    IN  IF rl # "ok" THEN [a |-> a, ok |-> FALSE, results |-> <<rl>>]
        ELSE IF rr # "ok" THEN [a |-> a1, ok |-> FALSE, results |-> <<rl, rr>>]
        ELSE [a |-> a2, ok |-> TRUE, results |-> <<rl, rr>>]

\* fault: 0 no pw-link fault, 1 the FL call faults, 2 the FR call faults.
\* results: what each pw-link call made reported, in order.
link_sink_to_device(a, sink, fault) ==
    LET rl == PwLinkResult(a, sink, "FL", fault = 1)
        a1 == IF rl = "ok" THEN [a EXCEPT !.links = @ \cup {<<sink, "FL">>}]
              ELSE a
        rr == PwLinkResult(a1, sink, "FR", fault = 2)
        a2 == IF rr = "ok" THEN [a1 EXCEPT !.links = @ \cup {<<sink, "FR">>}]
              ELSE a1
    IN  IF rl = "fail" THEN [a |-> a, ok |-> FALSE, results |-> <<rl>>]
        ELSE IF rr = "fail"
        THEN [a |-> a1, ok |-> FALSE, results |-> <<rl, rr>>]
        ELSE [a |-> a2, ok |-> TRUE, results |-> <<rl, rr>>]

\* The headset sink is found when pactl lists it and the listing succeeds.
find_arctis_sink(a, listOk) == listOk /\ a.phys

CmdResults == {"ok", "nonzero", "spawnfail"}

\* Outcomes of the commands setup_virtual_sinks runs: the sink listing, the
\* two destroys, the two creates, the pw-link faults and set-default-sink.
LinkFaults == IF linkFaults THEN 0..2 ELSE {0}

SetupOutcomes ==
    [list : BOOLEAN, dg : BOOLEAN, dc : BOOLEAN, cg : BOOLEAN, cc : BOOLEAN,
     fg : LinkFaults, fc : LinkFaults, sd : CmdResults]

\* The steps of setup_virtual_sinks, in order.
SetupSteps ==
    <<"find", "destroy_game", "destroy_chat", "create_game", "create_chat",
      "link_game", "link_chat", "set_default">>

\* What setup_virtual_sinks reports of a call that went into its first n
\* steps and left the audio state a.
SetupReport(n, a, linkResults, sd, ok) ==
    [steps |-> SubSeq(SetupSteps, 1, n), linkResults |-> linkResults,
     sd |-> sd, res |-> IF ok THEN "Ok" ELSE "Err",
     game |-> a.game, chat |-> a.chat, links |-> a.links, def |-> a.def]

\* setup_virtual_sinks past the sinks_created test: the audio state it leaves,
\* whether it returns Ok (and then stores sinks_created), and what it did.
\* Of set-default-sink only a command that cannot be run is an error.
setup_virtual_sinks(a, o) ==
    LET a1 == PwDestroy(PwDestroy(a, GAME, o.dg), CHAT, o.dc)
        a2 == PwCreate(a1, GAME)
        a3 == PwCreate(a2, CHAT)
        lg == link_sink_to_device(a3, GAME, o.fg)
        lc == link_sink_to_device(lg.a, CHAT, o.fc)
        a4 == PactlSetDefault(lc.a, GAME, o.sd)
    IN  IF ~find_arctis_sink(a, o.list)
        THEN [a |-> a, ok |-> FALSE,
              log |-> SetupReport(1, a, <<>>, "none", FALSE)]
        ELSE IF ~o.cg
        THEN [a |-> a1, ok |-> FALSE,
              log |-> SetupReport(4, a1, <<>>, "none", FALSE)]
        ELSE IF ~o.cc
        THEN [a |-> a2, ok |-> FALSE,
              log |-> SetupReport(5, a2, <<>>, "none", FALSE)]
        ELSE IF ~lg.ok
        THEN [a |-> lg.a, ok |-> FALSE,
              log |-> SetupReport(6, lg.a, lg.results, "none", FALSE)]
        ELSE IF ~lc.ok
        THEN [a |-> lc.a, ok |-> FALSE,
              log |-> SetupReport(7, lc.a, lg.results \o lc.results, "none",
                                  FALSE)]
        ELSE [a |-> a4, ok |-> (o.sd # "spawnfail"),
              log |-> SetupReport(8, a4, lg.results \o lc.results, o.sd,
                                  o.sd # "spawnfail")]

\* One found-sink pass of relink_virtual_sinks_with_retry: both links are
\* tried whatever the first returns, then the default sink is set.
\* errs counts the link_sink_to_device calls that returned Err.
relink_virtual_sinks(a, fg, fc, sd) ==
    LET lg == link_sink_to_device(a, GAME, fg)
        lc == link_sink_to_device(lg.a, CHAT, fc)
    IN  [a |-> PactlSetDefault(lc.a, GAME, sd),
         errs |-> (IF lg.ok THEN 0 ELSE 1) + (IF lc.ok THEN 0 ELSE 1),
         results |-> lg.results \o lc.results]

\* move_all_inputs_to("Arctis_Game"): the streams are moved in listing order;
\* a move that returns non-zero is skipped, a move that cannot be run ends
\* the batch with an error. tried is the set of streams a move-sink-input
\* command was issued for.
RECURSIVE MoveFrom(_, _, _, _)
MoveFrom(i, a, out, tried) ==
    IF i > NStreams THEN [a |-> a, ok |-> TRUE, tried |-> tried]
    ELSE IF i \notin streams THEN MoveFrom(i + 1, a, out, tried)
    ELSE IF out[i] = "spawnfail"
    THEN [a |-> a, ok |-> FALSE, tried |-> tried \cup {i}]
    ELSE MoveFrom(i + 1,
                  IF out[i] = "ok" /\ a.game
                  THEN [a EXCEPT !.onGame = @ \cup {i}] ELSE a,
                  out, tried \cup {i})

move_all_inputs_to(a, listOk, out) ==
    IF ~listOk THEN [a |-> a, ok |-> FALSE, tried |-> {}]
    ELSE MoveFrom(1, a, out, {})

\* cleanup whose commands are chained with `?`: the first one that has no
\* effect ends it.
cleanup_Abort(a, orig, r1, d1, d2) ==
    LET a1 == PactlSetDefault(a, orig, r1)
        a2 == PwDestroy(a1, GAME, d1)
        a3 == PwDestroy(a2, CHAT, d2)
        c1 == [cmd |-> "set-default-sink", arg |-> orig,
               ok |-> (r1 = "ok" /\ SinkExists(a, orig))]
        c2 == [cmd |-> "destroy", arg |-> GAME,
               ok |-> (d1 /\ SinkExists(a1, GAME))]
        c3 == [cmd |-> "destroy", arg |-> CHAT,
               ok |-> (d2 /\ SinkExists(a2, CHAT))]
    IN  IF ~c1.ok THEN [a |-> a1, log |-> <<c1>>]
        ELSE IF ~c2.ok THEN [a |-> a2, log |-> <<c1, c2>>]
        ELSE [a |-> a3, log |-> <<c1, c2, c3>>]

\* cleanup without the set-default-sink command.
cleanup_NoRestore(a, orig, r1, d1, d2) ==
    LET a2 == PwDestroy(a, GAME, d1)
        a3 == PwDestroy(a2, CHAT, d2)
    IN  [a |-> a3,
         log |-> << [cmd |-> "destroy", arg |-> GAME,
                     ok |-> (d1 /\ SinkExists(a, GAME))],
                    [cmd |-> "destroy", arg |-> CHAT,
                     ok |-> (d2 /\ SinkExists(a2, CHAT))] >>]

\* cleanup: the three commands in order, every result discarded. r1, d1, d2
\* are the outcomes the commands would have on existing sinks; the log keeps
\* whether each command took effect.
cleanup(a, orig, r1, d1, d2) ==
    LET a1 == PactlSetDefault(a, orig, r1)
        a2 == PwDestroy(a1, GAME, d1)
        a3 == PwDestroy(a2, CHAT, d2)
    IN  [a |-> a3,
         log |-> << [cmd |-> "set-default-sink", arg |-> orig,
                     ok |-> (r1 = "ok" /\ SinkExists(a, orig))],
                    [cmd |-> "destroy", arg |-> GAME,
                     ok |-> (d1 /\ SinkExists(a1, GAME))],
                    [cmd |-> "destroy", arg |-> CHAT,
                     ok |-> (d2 /\ SinkExists(a2, CHAT))] >>]

\* ---- the report reader's buffer ------------------------------------------
\* read_interrupt stores the len bytes received at the start of the buffer
\* and leaves the rest as it was.
ReadInto(b, data) ==
    [i \in 1..3 |-> IF i <= Len(data) THEN data[i] ELSE b[i]]

\* The shape test without the length.
IsVolumeReport_NoLen(len, b) == b[1] = ReportTag

\* The test read_loop applies to a successful read.
IsVolumeReport(len, b) == len >= ShapeLen /\ b[1] = ReportTag

VolumeCalls(len, b) ==
    IF IsVolumeReport(len, b) THEN << <<GAME, b[2]>>, <<CHAT, b[3]>> >>
    ELSE <<>>

\* ---- the side-tone writer ---------------------------------------------------
\* The bucket hidapi_send_sidetone computes from its percent argument.
SidetoneBucket_Inclusive(percent) ==
    IF percent <= 30 THEN 0
    ELSE IF percent <= 60 THEN 1
    ELSE IF percent <= 80 THEN 2
    ELSE 3

SidetoneBucket(percent) ==
    IF percent < 30 THEN 0
    ELSE IF percent < 60 THEN 1
    ELSE IF percent < 80 THEN 2
    ELSE 3

\* hidapi_send_sidetone(percent): the first three bytes of the report it
\* builds, and its result; the report is written when h is "ok" or "write".
hidapi_send_sidetone(percent, h) ==
    [sent |-> <<percent>>,
     data |-> <<0, SidetoneCmd, SidetoneBucket(percent)>>,
     res |-> IF h = "ok" THEN "Ok" ELSE h]

\* try_hidapi_sidetone_from_env: which percent it sends, if any.
try_hidapi_sidetone_from_env(env, h) ==
    IF env.disable = "on" THEN hidapi_send_sidetone(0, h)
    ELSE IF env.disable = "other" THEN hidapi_send_sidetone(100, h)
    ELSE IF env.percent = "u8"
    THEN hidapi_send_sidetone(IF env.value > 100 THEN 100 ELSE env.value, h)
    ELSE IF env.percent = "invalid"
    THEN [sent |-> <<>>, data |-> <<>>, res |-> "invalid"]
    ELSE [sent |-> <<>>, data |-> <<>>, res |-> "noconfig"]

\* ---- the USB locator ---------------------------------------------------------
\* Place of the first inbound interrupt endpoint in eps, 0 when there is none.
FirstInInterrupt(eps) ==
    LET hits == {j \in 1..Len(eps) :
                    eps[j].type = "Interrupt" /\ eps[j].dir = "In"}
    IN  IF hits = {} THEN 0
        ELSE CHOOSE j \in hits : \A k \in hits : j <= k

\* The interface scan of usb_find_and_open from place i on, tgt being
\* (target_interface_num, target_endpoint) so far: every interface of class
\* 3 that has an inbound interrupt endpoint replaces the target.
RECURSIVE ScanFrom(_, _, _)
ScanFrom(cfg, i, tgt) ==
    IF i > Len(cfg) THEN tgt
    ELSE LET d == Descriptor(cfg, i)
             j == FirstInInterrupt(d.eps)
         IN  ScanFrom(cfg, i + 1,
                      IF d.class = HidClass /\ j # 0
                      THEN [iface |-> d.num, ep |-> d.eps[j].addr]
                      ELSE tgt)

\* A scan that takes the last interface of class 3 whether or not it has an
\* inbound interrupt endpoint.
ScanConfig_AnyHid(cfg) ==
    LET hids == {i \in 1..Len(cfg) : Descriptor(cfg, i).class = HidClass}
        k == CHOOSE i \in hids : \A m \in hids : m <= i
        e == FirstInInterrupt(Descriptor(cfg, k).eps)
    IN  IF hids = {} THEN [iface |-> -1, ep |-> DefaultEndpoint]
        ELSE [iface |-> Descriptor(cfg, k).num,
              ep |-> IF e = 0 THEN DefaultEndpoint
                     ELSE Descriptor(cfg, k).eps[e].addr]

ScanConfig(cfg) == ScanFrom(cfg, 1, [iface |-> -1, ep |-> DefaultEndpoint])

\* The calls of one pass of the claim loop: the driver query, the detach
\* when the query says a driver is active, then the claim.
ClaimCalls(kda, detachOk) ==
    << <<"kernel_driver_active", kda>> >>
    \o (IF kda = "active"
        THEN << <<"detach_kernel_driver", IF detachOk THEN "ok" ELSE "fail">> >>
        ELSE <<>>)

\* ---- the supervisor's connection state ------------------------------------
ConnState ==
    CASE pc \in {"new", "startup", "setup", "startup_sleep", "connect",
                 "connect_err", "connect_sleep", "tcr_err", "tcr_sleep"}
             -> "Disconnected"
      [] pc \in {"tcr", "claim", "claim_sleep"} -> "Connecting"
      [] pc \in {"relink", "relink_sleep", "migrate", "read_top", "reading",
                 "read_sleep", "release"} -> "Connected"
      [] OTHER -> "ShuttingDown"

\* ---- the program ----------------------------------------------------------
sigVars == <<running, cancelAt>>
ctlVars == <<sinks_created, original_default_sink>>
logVars == <<releaseLog, mig, relinkRes, quiet>>
endVars == <<cleanupLog, cleanupCount, exitStatus>>
sessVars == <<attempt, claimed, res>>

\* main -> ArctisController::new: record the default sink and install the
\* Ctrl-C handler; either failure leaves main through `?` before a
\* controller exists.
New ==
    /\ pc = "new"
    /\ \E got \in BOOLEAN, handlerOk \in BOOLEAN :
         IF got /\ handlerOk
         THEN /\ original_default_sink' = defaultSink
              /\ pc' = "startup"
              /\ UNCHANGED exitStatus
         ELSE /\ pc' = "exited"
              /\ exitStatus' = 1
              /\ UNCHANGED original_default_sink
    /\ UNCHANGED <<sigVars, sinks_created, sessVars, readVars, cleanupLog,
                   cleanupCount, dev, audioVars, envPars, loc, logVars,
                   setupRes>>

\* start, first loop: the running test at the top of an iteration.
StartupTop ==
    /\ pc = "startup"
    /\ pc' = IF ~running THEN "drop" ELSE "setup"
    /\ UNCHANGED <<sigVars, ctlVars, sessVars, readVars, endVars, dev,
                   audioVars, envPars, loc, logVars, setupRes>>

\* StartupSetup that leaves the first loop whatever setup_virtual_sinks
\* returned.
StartupSetup_NoWait ==
    /\ pc = "setup"
    /\ IF sinks_created
       THEN /\ pc' = "connect"
            /\ setupRes' = [NoSetup EXCEPT !.res = "Ok"]
            /\ UNCHANGED <<sinks_created, audioVars>>
       ELSE \E o \in SetupOutcomes :
              LET r == setup_virtual_sinks(Audio, o)
              IN  /\ SetAudio(r.a)
                  /\ sinks_created' = r.ok
                  /\ setupRes' = r.log
                  /\ pc' = "connect"
    /\ UNCHANGED <<sigVars, original_default_sink, sessVars, readVars,
                   endVars, dev, envPars, loc, logVars>>

\* start, first loop: the setup_virtual_sinks call of an iteration, up to the
\* break or the sleep.
StartupSetup ==
    /\ pc = "setup"
    /\ IF sinks_created
       THEN /\ pc' = "connect"
            /\ setupRes' = [NoSetup EXCEPT !.res = "Ok"]
            /\ UNCHANGED <<sinks_created, audioVars>>
       ELSE \E o \in SetupOutcomes :
              LET r == setup_virtual_sinks(Audio, o)
              IN  /\ SetAudio(r.a)
                  /\ sinks_created' = r.ok
                  /\ setupRes' = r.log
                  /\ pc' = IF r.ok THEN "connect" ELSE "startup_sleep"
    /\ UNCHANGED <<sigVars, original_default_sink, sessVars, readVars,
                   endVars, dev, envPars, loc, logVars>>

StartupSleep ==
    /\ pc = "startup_sleep"
    /\ pc' = "startup"
    /\ setupRes' = NoSetup
    /\ UNCHANGED <<sigVars, ctlVars, sessVars, readVars, endVars, dev,
                   audioVars, envPars, loc, logVars>>

\* start, second loop: the running test, then try_connect_and_run up to its
\* own loop; a libusb context that cannot be made is an Err for start.
ConnectTop ==
    /\ pc = "connect"
    /\ pc' = IF ~running THEN "drop"
             ELSE IF dev = "nousb" THEN "connect_err"
             ELSE "tcr"
    /\ setupRes' = NoSetup
    /\ UNCHANGED <<sigVars, ctlVars, sessVars, readVars, endVars, dev,
                   audioVars, envPars, loc, logVars>>

\* ConnectErr with a teardown of its own before the break.
ConnectErr_Cleanup ==
    /\ pc = "connect_err"
    /\ IF ~running
       THEN LET c == cleanup(Audio, original_default_sink, "ok", TRUE, TRUE)
            IN  /\ SetAudio(c.a)
                /\ cleanupLog' = cleanupLog \o c.log
                /\ cleanupCount' = cleanupCount + 1
                /\ pc' = "drop"
       ELSE /\ pc' = "connect_sleep"
            /\ UNCHANGED <<cleanupLog, cleanupCount, audioVars>>
    /\ releaseLog' = <<>>
    /\ UNCHANGED <<sigVars, ctlVars, sessVars, readVars, exitStatus, dev,
                   envPars, loc, mig, relinkRes, quiet, setupRes>>

\* start, Err arm of the second loop.
ConnectErr ==
    /\ pc = "connect_err"
    /\ pc' = IF ~running THEN "drop" ELSE "connect_sleep"
    /\ releaseLog' = <<>>
    /\ UNCHANGED <<sigVars, ctlVars, sessVars, readVars, endVars, dev,
                   audioVars, envPars, loc, mig, relinkRes, quiet, setupRes>>

ConnectSleep ==
    /\ pc = "connect_sleep"
    /\ pc' = "connect"
    /\ UNCHANGED <<sigVars, ctlVars, sessVars, readVars, endVars, dev,
                   audioVars, envPars, loc, logVars, setupRes>>

\* TcrTop whose usb_find_and_open returns the side-tone writer's error.
TcrTop_SidetoneFatal ==
    /\ pc = "tcr"
    /\ IF ~running
       THEN pc' = "drop" /\ UNCHANGED <<attempt, loc>>
       ELSE IF dev \in {"nousb", "absent"}
       THEN /\ pc' = "tcr_err"
            /\ loc' = [NoLoc EXCEPT !.result = "NotFound"]
            /\ UNCHANGED attempt
       ELSE IF ScanConfig(config).iface = -1
       THEN /\ pc' = "tcr_err"
            /\ loc' = [NoLoc EXCEPT !.result = "NoHidInterface"]
            /\ UNCHANGED attempt
       ELSE IF dev = "unusable"
       THEN /\ pc' = "tcr_err"
            /\ loc' = [NoLoc EXCEPT !.pre = <<"open">>,
                                    !.result = "OpenFailed"]
            /\ UNCHANGED attempt
       ELSE \E h \in HidOutcomes :
              /\ loc' = [NoLoc EXCEPT
                           !.pre = <<"open", "sidetone", "set_auto_detach">>,
                           !.sidetone =
                               try_hidapi_sidetone_from_env(sidetoneEnv, h),
                           !.iface = ScanConfig(config).iface,
                           !.ep = ScanConfig(config).ep]
              /\ IF h = "ok"
                 THEN pc' = "claim" /\ attempt' = 1
                 ELSE pc' = "tcr_err" /\ UNCHANGED attempt
    /\ UNCHANGED <<sigVars, ctlVars, claimed, res, readVars, endVars, dev,
                   audioVars, envPars, logVars, setupRes>>

\* try_connect_and_run, loop test, then usb_find_and_open up to its claim
\* loop: find the device, scan its interfaces, open it, write the side tone.
TcrTop ==
    /\ pc = "tcr"
    /\ IF ~running
       THEN pc' = "drop" /\ UNCHANGED <<attempt, loc>>
       ELSE IF dev \in {"nousb", "absent"}
       THEN /\ pc' = "tcr_err"
            /\ loc' = [NoLoc EXCEPT !.result = "NotFound"]
            /\ UNCHANGED attempt
       ELSE IF ScanConfig(config).iface = -1
       THEN /\ pc' = "tcr_err"
            /\ loc' = [NoLoc EXCEPT !.result = "NoHidInterface"]
            /\ UNCHANGED attempt
       ELSE IF dev = "unusable"
       THEN /\ pc' = "tcr_err"
            /\ loc' = [NoLoc EXCEPT !.pre = <<"open">>,
                                    !.result = "OpenFailed"]
            /\ UNCHANGED attempt
       ELSE \E h \in HidOutcomes :
              /\ loc' = [NoLoc EXCEPT
                           !.pre = <<"open", "sidetone", "set_auto_detach">>,
                           !.sidetone =
                               try_hidapi_sidetone_from_env(sidetoneEnv, h),
                           !.iface = ScanConfig(config).iface,
                           !.ep = ScanConfig(config).ep]
              /\ pc' = "claim"
              /\ attempt' = 1
    /\ UNCHANGED <<sigVars, ctlVars, claimed, res, readVars, endVars, dev,
                   audioVars, envPars, logVars, setupRes>>

\* TcrErr that leaves the loop without looking at the flag.
TcrErr_Break ==
    /\ pc = "tcr_err"
    /\ pc' = "drop"
    /\ loc' = NoLoc
    /\ UNCHANGED <<sigVars, ctlVars, sessVars, readVars, endVars, dev,
                   audioVars, envPars, logVars, setupRes>>

\* try_connect_and_run, Err arm.
TcrErr ==
    /\ pc = "tcr_err"
    /\ pc' = IF ~running THEN "drop" ELSE "tcr_sleep"
    /\ loc' = NoLoc
    /\ UNCHANGED <<sigVars, ctlVars, sessVars, readVars, endVars, dev,
                   audioVars, envPars, logVars, setupRes>>

TcrSleep ==
    /\ pc = "tcr_sleep"
    /\ pc' = "tcr"
    /\ UNCHANGED <<sigVars, ctlVars, sessVars, readVars, endVars, dev,
                   audioVars, envPars, loc, logVars, setupRes>>

\* Claim whose loop makes one pass more.
Claim_OneMore ==
    /\ pc = "claim"
    /\ \E kda \in {"active", "inactive", "error"}, detachOk \in BOOLEAN :
         loc' = [loc EXCEPT
                   !.claims = @ + 1,
                   !.failed = IF dev = "ready" THEN @ ELSE @ + 1,
                   !.calls = ClaimCalls(kda, detachOk) \o
                             << <<"claim_interface",
                                  IF dev = "ready" THEN "ok" ELSE "fail">> >>,
                   !.result = IF dev = "ready" THEN "Ok"
                              ELSE IF attempt = CLAIM_RETRIES + 1
                              THEN "ClaimFailed" ELSE "none"]
    /\ IF dev = "ready"
       THEN /\ claimed' = TRUE
            /\ attempt' = 1
            /\ pc' = "relink"
       ELSE IF attempt = CLAIM_RETRIES + 1
       THEN /\ attempt' = 0
            /\ pc' = "tcr_err"
            /\ UNCHANGED claimed
       ELSE /\ pc' = "claim_sleep"
            /\ UNCHANGED <<attempt, claimed>>
    /\ UNCHANGED <<sigVars, ctlVars, res, readVars, endVars, dev, audioVars,
                   envPars, logVars, setupRes>>

\* usb_find_and_open, one pass of the claim loop up to its sleep: the driver
\* query, the detach if a driver is active, the claim.
Claim ==
    /\ pc = "claim"
    /\ \E kda \in {"active", "inactive", "error"}, detachOk \in BOOLEAN :
         loc' = [loc EXCEPT
                   !.claims = @ + 1,
                   !.failed = IF dev = "ready" THEN @ ELSE @ + 1,
                   !.calls = ClaimCalls(kda, detachOk) \o
                             << <<"claim_interface",
                                  IF dev = "ready" THEN "ok" ELSE "fail">> >>,
                   !.result = IF dev = "ready" THEN "Ok"
                              ELSE IF attempt = CLAIM_RETRIES
                              THEN "ClaimFailed" ELSE "none"]
    /\ IF dev = "ready"
       THEN /\ claimed' = TRUE
            /\ attempt' = 1
            /\ pc' = "relink"
       ELSE IF attempt = CLAIM_RETRIES
       THEN /\ attempt' = 0
            /\ pc' = "tcr_err"
            /\ UNCHANGED claimed
       ELSE /\ pc' = "claim_sleep"
            /\ UNCHANGED <<attempt, claimed>>
    /\ UNCHANGED <<sigVars, ctlVars, res, readVars, endVars, dev, audioVars,
                   envPars, logVars, setupRes>>

ClaimSleep ==
    /\ pc = "claim_sleep"
    /\ attempt' = attempt + 1
    /\ pc' = "claim"
    /\ UNCHANGED <<sigVars, ctlVars, claimed, res, readVars, endVars, dev,
                   audioVars, envPars, loc, logVars, setupRes>>

\* relink_virtual_sinks_with_retry, one pass of its loop up to the sleep;
\* its result is only logged by try_connect_and_run.
RelinkTop ==
    /\ pc = "relink"
    /\ IF ~running
       THEN /\ pc' = "migrate"
            /\ attempt' = 0
            /\ relinkRes' = [relinkRes EXCEPT !.ret = "Shutdown"]
            /\ UNCHANGED <<audioVars, quiet>>
       ELSE \E listOk \in BOOLEAN, fg \in LinkFaults, fc \in LinkFaults,
                 sd \in CmdResults :
              IF find_arctis_sink(Audio, listOk)
              THEN LET r == relink_virtual_sinks(Audio, fg, fc, sd)
                   IN  /\ SetAudio(r.a)
                       /\ relinkRes' = [again |-> quiet, before |-> links,
                                        after |-> r.a.links,
                                        errs |-> r.errs,
                                        results |-> r.results,
                                        ret |-> "Ok"]
                       /\ quiet' = TRUE
                       /\ pc' = "migrate"
                       /\ attempt' = 0
              ELSE /\ pc' = "relink_sleep"
                   /\ UNCHANGED <<attempt, audioVars, relinkRes, quiet>>
    /\ loc' = NoLoc
    /\ UNCHANGED <<sigVars, ctlVars, claimed, res, readVars, endVars, dev,
                   envPars, releaseLog, mig, setupRes>>

\* RelinkSleep whose Err after the last attempt ends the session: the
\* interface is released and the error returned to start.
RelinkSleep_Fatal ==
    /\ pc = "relink_sleep"
    /\ IF attempt = RETRIES
       THEN /\ pc' = "release"
            /\ attempt' = 0
            /\ res' = "RelinkFailed"
            /\ relinkRes' = NoRelink
       ELSE /\ pc' = "relink"
            /\ attempt' = attempt + 1
            /\ UNCHANGED <<res, relinkRes>>
    /\ UNCHANGED <<sigVars, ctlVars, claimed, readVars, endVars, dev,
                   audioVars, envPars, loc, releaseLog, mig, quiet, setupRes>>

\* relink_virtual_sinks_with_retry: the sleep after a find that failed, then
\* the next attempt or, after the last one, the Err that try_connect_and_run
\* only logs.
RelinkSleep ==
    /\ pc = "relink_sleep"
    /\ IF attempt = RETRIES
       THEN /\ pc' = "migrate"
            /\ attempt' = 0
            /\ relinkRes' = [relinkRes EXCEPT !.ret = "NotFound"]
       ELSE /\ pc' = "relink"
            /\ attempt' = attempt + 1
            /\ UNCHANGED relinkRes
    /\ UNCHANGED <<sigVars, ctlVars, claimed, res, readVars, endVars, dev,
                   audioVars, envPars, loc, releaseLog, mig, quiet, setupRes>>

\* try_connect_and_run: move_all_inputs_to, result only logged, then the
\* call of read_loop with its fresh locals.
Migrate ==
    /\ pc = "migrate"
    /\ \E listOk \in BOOLEAN, out \in [Streams -> CmdResults] :
         LET m == move_all_inputs_to(Audio, listOk, out)
         IN  /\ SetAudio(m.a)
             /\ mig' = [listed |-> listOk, tried |-> m.tried,
                        res |-> IF m.ok THEN "Ok" ELSE "Err",
                        relink |-> relinkRes.ret]
    /\ relinkRes' = NoRelink
    /\ buf' = ZeroBuf
    /\ consecutive_errors' = 0
    /\ errRun' = 0
    /\ runBroken' = FALSE
    /\ lastOutcome' = "none"
    /\ lastLen' = 0
    /\ volCalls' = <<>>
    /\ res' = "none"
    /\ pc' = "read_top"
    /\ UNCHANGED <<sigVars, ctlVars, attempt, claimed, endVars, dev, envPars,
                   loc, releaseLog, quiet, setupRes>>

\* ReadTop that tests the flag only after a read that timed out.
ReadTop_LateCheck ==
    /\ pc = "read_top"
    /\ IF ~running /\ lastOutcome # "Ok"
       THEN pc' = "release" /\ res' = "Ok"
       ELSE pc' = "reading" /\ UNCHANGED res
    /\ lastOutcome' = "none"
    /\ lastLen' = 0
    /\ volCalls' = <<>>
    /\ mig' = NoMig
    /\ UNCHANGED <<sigVars, ctlVars, attempt, claimed, consecutive_errors,
                   buf, errRun, runBroken, endVars, dev, audioVars, envPars,
                   loc, releaseLog, relinkRes, quiet, setupRes>>

\* read_loop, loop test: leave with Ok, or block in read_interrupt.
ReadTop ==
    /\ pc = "read_top"
    /\ IF ~running
       THEN pc' = "release" /\ res' = "Ok"
       ELSE pc' = "reading" /\ UNCHANGED res
    /\ lastOutcome' = "none"
    /\ lastLen' = 0
    /\ volCalls' = <<>>
    /\ mig' = NoMig
    /\ UNCHANGED <<sigVars, ctlVars, attempt, claimed, consecutive_errors,
                   buf, errRun, runBroken, endVars, dev, audioVars, envPars,
                   loc, releaseLog, relinkRes, quiet, setupRes>>

\* ReadOk that resets the counter inside the shape test.
ReadOk_ResetOnShape ==
    /\ pc = "reading"
    /\ dev # "absent"
    /\ \E data \in reports :
         /\ buf' = ReadInto(buf, data)
         /\ lastLen' = Len(data)
         /\ volCalls' = VolumeCalls(Len(data), buf')
         /\ consecutive_errors' =
              IF IsVolumeReport(Len(data), buf') THEN 0 ELSE consecutive_errors
    /\ lastOutcome' = "Ok"
    /\ errRun' = 0
    /\ runBroken' = (runBroken \/ errRun > 0)
    /\ pc' = "read_top"
    /\ UNCHANGED <<sigVars, ctlVars, sessVars, endVars, dev, audioVars,
                   envPars, loc, logVars, setupRes>>

\* read_interrupt returns Ok(len).
ReadOk ==
    /\ pc = "reading"
    /\ dev # "absent"
    /\ \E data \in reports :
         /\ buf' = ReadInto(buf, data)
         /\ lastLen' = Len(data)
         /\ volCalls' = VolumeCalls(Len(data), buf')
    /\ consecutive_errors' = 0
    /\ lastOutcome' = "Ok"
    /\ errRun' = 0
    /\ runBroken' = (runBroken \/ errRun > 0)
    /\ pc' = "read_top"
    /\ UNCHANGED <<sigVars, ctlVars, sessVars, endVars, dev, audioVars,
                   envPars, loc, logVars, setupRes>>

\* ReadTimeout that leaves the counter as it is.
ReadTimeout_NoReset ==
    /\ pc = "reading"
    /\ dev # "absent"
    /\ lastOutcome' = "Timeout"
    /\ errRun' = 0
    /\ runBroken' = (runBroken \/ errRun > 0)
    /\ pc' = "read_top"
    /\ UNCHANGED <<sigVars, ctlVars, sessVars, consecutive_errors, buf,
                   lastLen, volCalls, endVars, dev, audioVars, envPars, loc,
                   logVars, setupRes>>

\* read_interrupt returns Err(Timeout).
ReadTimeout ==
    /\ pc = "reading"
    /\ dev # "absent"
    /\ consecutive_errors' = 0
    /\ lastOutcome' = "Timeout"
    /\ errRun' = 0
    /\ runBroken' = (runBroken \/ errRun > 0)
    /\ pc' = "read_top"
    /\ UNCHANGED <<sigVars, ctlVars, sessVars, buf, lastLen, volCalls,
                   endVars, dev, audioVars, envPars, loc, logVars, setupRes>>

\* ReadNoDevice that counts the outcome as one more transport error.
ReadNoDevice_Counted ==
    /\ pc = "reading"
    /\ dev = "absent"
    /\ lastOutcome' = "NoDevice"
    /\ consecutive_errors' = consecutive_errors + 1
    /\ errRun' = errRun + 1
    /\ IF consecutive_errors' >= MAX_ERRORS
       THEN pc' = "release" /\ res' = "Disconnected"
       ELSE pc' = "read_sleep" /\ UNCHANGED res
    /\ UNCHANGED <<sigVars, ctlVars, attempt, claimed, buf, lastLen, volCalls,
                   runBroken, endVars, dev, audioVars, envPars, loc, logVars,
                   setupRes>>


\* read_interrupt returns Err(NoDevice).
ReadNoDevice ==
    /\ pc = "reading"
    /\ dev = "absent"
    /\ lastOutcome' = "NoDevice"
    /\ res' = "Disconnected"
    /\ pc' = "release"
    /\ UNCHANGED <<sigVars, ctlVars, attempt, claimed, consecutive_errors,
                   buf, lastLen, volCalls, errRun, runBroken, endVars, dev,
                   audioVars, envPars, loc, logVars, setupRes>>

\* read_interrupt returns Err(Io) or another transport error (the two arms
\* of read_loop are the same up to their log text).
ReadError ==
    /\ pc = "reading"
    /\ consecutive_errors' = consecutive_errors + 1
    /\ errRun' = errRun + 1
    /\ lastOutcome' = "Error"
    /\ IF consecutive_errors' >= MAX_ERRORS
       THEN pc' = "release" /\ res' = "TooManyErrors"
       ELSE pc' = "read_sleep" /\ UNCHANGED res
    /\ UNCHANGED <<sigVars, ctlVars, attempt, claimed, buf, lastLen, volCalls,
                   runBroken, endVars, dev, audioVars, envPars, loc, logVars,
                   setupRes>>

ReadSleep ==
    /\ pc = "read_sleep"
    /\ pc' = "read_top"
    /\ UNCHANGED <<sigVars, ctlVars, sessVars, readVars, endVars, dev,
                   audioVars, envPars, loc, logVars, setupRes>>

\* Release that marks the topology as gone when the session ended in an
\* error.
Release_ResetFlag ==
    /\ pc = "release"
    /\ \E ok \in BOOLEAN : releaseLog' = Append(releaseLog, ok)
    /\ claimed' = FALSE
    /\ pc' = IF res = "Ok" THEN "drop" ELSE "connect_err"
    /\ sinks_created' = (res = "Ok")
    /\ buf' = ZeroBuf
    /\ consecutive_errors' = 0
    /\ errRun' = 0
    /\ runBroken' = FALSE
    /\ lastOutcome' = "none"
    /\ lastLen' = 0
    /\ volCalls' = <<>>
    /\ UNCHANGED <<sigVars, original_default_sink, attempt, res, endVars, dev,
                   audioVars, envPars, loc, mig, relinkRes, quiet, setupRes>>

\* Release that turns a failed release_interface into the session's result.
Release_FailFatal ==
    /\ pc = "release"
    /\ \E ok \in BOOLEAN :
         /\ releaseLog' = Append(releaseLog, ok)
         /\ res' = IF ok THEN res ELSE "ReleaseFailed"
    /\ claimed' = FALSE
    /\ pc' = IF res' = "Ok" THEN "drop" ELSE "connect_err"
    /\ buf' = ZeroBuf
    /\ consecutive_errors' = 0
    /\ errRun' = 0
    /\ runBroken' = FALSE
    /\ lastOutcome' = "none"
    /\ lastLen' = 0
    /\ volCalls' = <<>>
    /\ UNCHANGED <<sigVars, ctlVars, attempt, endVars, dev, audioVars,
                   envPars, loc, mig, relinkRes, quiet, setupRes>>


\* try_connect_and_run after read_loop: release the interface, whatever
\* that returns, and hand the reader's result to start.
Release ==
    /\ pc = "release"
    /\ \E ok \in BOOLEAN : releaseLog' = Append(releaseLog, ok)
    /\ claimed' = FALSE
    /\ pc' = IF res = "Ok" THEN "drop" ELSE "connect_err"
    /\ buf' = ZeroBuf
    /\ consecutive_errors' = 0
    /\ errRun' = 0
    /\ runBroken' = FALSE
    /\ lastOutcome' = "none"
    /\ lastLen' = 0
    /\ volCalls' = <<>>
    /\ UNCHANGED <<sigVars, ctlVars, attempt, res, endVars, dev, audioVars,
                   envPars, loc, mig, relinkRes, quiet, setupRes>>

\* main: start has returned Ok, the controller goes out of scope and its
\* Drop runs cleanup; the process exits with status 0.
DropController ==
    /\ pc = "drop"
    /\ \E r1 \in CmdResults, d1 \in BOOLEAN, d2 \in BOOLEAN :
         LET c == cleanup(Audio, original_default_sink, r1, d1, d2)
         IN  /\ SetAudio(c.a)
             /\ cleanupLog' = cleanupLog \o c.log
    /\ cleanupCount' = cleanupCount + 1
    /\ exitStatus' = 0
    /\ pc' = "exited"
    /\ releaseLog' = <<>>
    /\ UNCHANGED <<sigVars, ctlVars, sessVars, readVars, dev, envPars, loc,
                   mig, relinkRes, quiet, setupRes>>

\* Where the main thread is when Ctrl-C arrives: blocked in the read, in the
\* startup loop, waiting for the device, or elsewhere in a session.
CancelPoint ==
    CASE pc = "reading" -> "reading"
      [] pc \in {"startup", "setup", "startup_sleep"} -> "startup"
      [] ConnState \in {"Disconnected", "Connecting"} -> "waiting"
      [] OTHER -> "session"

\* The Ctrl-C handler: one store to the flag.
CtrlC ==
    /\ pc \notin {"new", "exited"}
    /\ running
    /\ running' = FALSE
    /\ cancelAt' = CancelPoint
    /\ UNCHANGED <<pc, ctlVars, sessVars, readVars, endVars, dev, audioVars,
                   envPars, loc, logVars, setupRes>>

\* ---- the environment --------------------------------------------------------
\* The headset is plugged, unplugged, or changes what the bus lets the
\* program do with it; unplugging removes its sink from the audio server.
DeviceChange ==
    /\ pc # "exited"
    /\ \E d \in DevStates \ {dev} :
         /\ dev' = d
         /\ IF d = "absent"
            THEN /\ physSink' = FALSE
                 /\ links' = {}
                 /\ defaultSink' = IF defaultSink = HEADSET THEN SPEAKERS
                                   ELSE defaultSink
                 /\ quiet' = FALSE
            ELSE UNCHANGED <<physSink, links, defaultSink, quiet>>
    /\ UNCHANGED <<progVars, gameSink, chatSink, onGame, envPars>>

\* The audio server lists the sink of the attached headset.
SinkAppears ==
    /\ pc # "exited"
    /\ dev # "absent"
    /\ ~physSink
    /\ physSink' = TRUE
    /\ quiet' = FALSE
    /\ UNCHANGED <<progVars, dev, gameSink, chatSink, links, defaultSink,
                   onGame, envPars>>

\* The audio server restarts: every node made through pw-cli and every link
\* is gone; the hardware sinks are listed again afterwards.
ServerRestart ==
    /\ pc # "exited"
    /\ gameSink \/ chatSink \/ physSink
    /\ physSink' = FALSE
    /\ gameSink' = FALSE
    /\ chatSink' = FALSE
    /\ links' = {}
    /\ onGame' = {}
    /\ defaultSink' = SPEAKERS
    /\ quiet' = FALSE
    /\ UNCHANGED <<progVars, dev, envPars>>

Prog ==
    \/ New \/ StartupTop \/ StartupSetup \/ StartupSleep
    \/ ConnectTop \/ ConnectErr \/ ConnectSleep
    \/ TcrTop \/ TcrErr \/ TcrSleep
    \/ Claim \/ ClaimSleep
    \/ RelinkTop \/ RelinkSleep \/ Migrate
    \/ ReadTop \/ ReadOk \/ ReadTimeout \/ ReadNoDevice \/ ReadError
    \/ ReadSleep \/ Release \/ DropController

Env == CtrlC \/ DeviceChange \/ SinkAppears \/ ServerRestart

Next == Prog \/ Env

Spec == Init /\ [][Next]_vars

ReaderNext == Prog \/ CtrlC \/ DeviceChange \/ SinkAppears

ReaderSpec == ReaderInit /\ [][ReaderNext]_vars

\* The locator at work on every configuration descriptor of up to MaxIfaces
\* interfaces, and on the standard one under each side-tone environment; a
\* firmware that sends empty reports, an audio server that stays up.
LocatorInit ==
    /\ InitProg
    /\ InitEnv
    /\ streams = {}
    /\ linkFaults = FALSE
    /\ reports = {<<>>}
    /\ \/ config \in AllConfigs /\ sidetoneEnv = SidetoneUnset
       \/ config = StdConfig /\ sidetoneEnv \in FewSidetoneEnvs

LocatorSpec == LocatorInit /\ [][ReaderNext]_vars

\* The audio router at work: streams are playing, the audio server restarts,
\* pw-link fails only on missing ports.
RouterInit ==
    /\ InitProg
    /\ InitEnv
    /\ streams \in SUBSET Streams
    /\ linkFaults = FALSE
    /\ reports = {<<>>}
    /\ config = StdConfig
    /\ sidetoneEnv = SidetoneUnset

RouterSpec == RouterInit /\ [][Next]_vars

\* hidapi_send_sidetone on its own, applied to every u8.
SidetoneInit ==
    /\ InitProg
    /\ dev = "ready"
    /\ physSink = TRUE
    /\ gameSink = FALSE
    /\ chatSink = FALSE
    /\ links = {}
    /\ defaultSink = HEADSET
    /\ onGame = {}
    /\ streams = {}
    /\ linkFaults = FALSE
    /\ reports = {<<>>}
    /\ config = StdConfig
    /\ sidetoneEnv = SidetoneUnset

SendSidetone ==
    /\ loc.sidetone = NoSidetone
    /\ \E percent \in 0..U8Max, h \in HidOutcomes :
         loc' = [loc EXCEPT !.sidetone = hidapi_send_sidetone(percent, h)]
    /\ UNCHANGED <<pc, sigVars, ctlVars, sessVars, readVars, endVars, dev,
                   audioVars, envPars, logVars, setupRes>>

SidetoneSpec == SidetoneInit /\ [][SendSidetone]_vars

\* The main thread is never suspended for ever: a sleep ends, a blocked
\* read returns, a command returns.
FairSpec == Spec /\ WF_vars(Prog)

\* The supervisor from its start, fairly scheduled, the device coming and
\* going and the audio server restarting: setup_virtual_sinks fails by a
\* sink that is not found or not created, pw-link only on missing ports.
StartupInit ==
    /\ InitProg
    /\ InitEnv
    /\ streams = {}
    /\ linkFaults = FALSE
    /\ reports = FewReports
    /\ config = StdConfig
    /\ sidetoneEnv = SidetoneUnset

StartupSpec == StartupInit /\ [][Next]_vars /\ WF_vars(Prog)

\* ---- properties -------------------------------------------------------------
\* The supervisor (start) has returned and the process has ended normally.
SupervisorStopped == pc = "exited" /\ exitStatus = 0

\* cleanup has issued its set-default-sink command.
RestoreAttempted ==
    /\ Len(cleanupLog) >= 1
    /\ cleanupLog[1].cmd = "set-default-sink"

\* C1: teardown (cleanup) runs exactly once in a run whose supervisor has
\* stopped, from whichever state it stopped, and never before start has
\* returned: it has not run in any state but the final one.
C1_TeardownOnce ==
    /\ cleanupCount <= 1
    /\ pc # "exited" => cleanupCount = 0 /\ cleanupLog = <<>>
    /\ SupervisorStopped => cleanupCount = 1

\* C1: the supervisor was stopped in the startup topology retry and teardown
\* has run once.
C1_Witness == SupervisorStopped /\ cancelAt = "startup" /\ cleanupCount = 1

\* C2: start is left only with the flag set (running false); while it is
\* unset, a session or a connection attempt that ends falls back to
\* Disconnected, and under fair scheduling the supervisor is back at the top
\* of its connect loop unless the flag is set in the meantime.
C2_LeavesOnlyOnCancel ==
    /\ [][(pc # "new" /\ running') => pc' \notin {"drop", "exited"}]_vars
    /\ [][(running' /\ ConnState # "Disconnected" /\ ConnState' # ConnState
           /\ ConnState' # "Connected") => ConnState' = "Disconnected"]_vars
    /\ (pc \in {"tcr_err", "connect_err"}) ~> (pc \in {"connect", "tcr"} \/ ~running)

\* C2: a session ended by the read-error ceiling, the flag unset, and the
\* supervisor sleeping before its next attempt.
C2_Witness == pc = "connect_sleep" /\ running /\ res = "TooManyErrors"

\* C3 as stated: whatever the exit path, restoration was attempted before
\* the process exited.
C3_RestoreOnBothPaths == pc = "exited" => RestoreAttempted

\* C3 amended: on the exit that follows the termination signal, restoration
\* of the recorded default sink is attempted before the process exits; on the
\* fatal startup exit nothing is attempted, and nothing was changed.
C3_RestoreOnSignalOnly ==
    pc = "exited" =>
        IF exitStatus = 0
        THEN /\ ~running
             /\ RestoreAttempted
             /\ cleanupLog[1].arg = original_default_sink
             /\ original_default_sink \in {SPEAKERS, HEADSET}
        ELSE /\ exitStatus = 1
             /\ cleanupLog = <<>>
             /\ ~sinks_created /\ ~gameSink /\ ~chatSink /\ links = {}

\* C3: the fatal startup exit.
C3_Witness == pc = "exited" /\ exitStatus = 1 /\ cleanupLog = <<>>


\* Both virtual sinks exist and all four channel links are in place.
TopologyUp == gameSink /\ chatSink /\ links = AllLinks

\* C4 as stated: once an audio-server restart has removed the virtual sinks
\* of a topology the program had built, and from then on the headset stays
\* attached, claimable and listed and no termination is requested, the
\* topology is up again at some later time.
C4_TopologyRebuilt ==
    []((sinks_created /\ ~gameSink /\ ~chatSink
        /\ [](running /\ dev = "ready" /\ physSink))
       => <>TopologyUp)

\* C5: once the topology flag is true no step of the program before
\* teardown clears it or creates or destroys a virtual sink; Connected is
\* entered from Connecting only and Connecting from Disconnected only; and
\* after a session ended by device removal, if from some time on the device
\* stays claimable and no termination is requested, the reader runs again.
C5_ReconnectKeepsTopology ==
    /\ [][(sinks_created /\ pc' # pc /\ pc # "drop")
          => (sinks_created' /\ gameSink' = gameSink /\ chatSink' = chatSink)]_vars
    /\ [][(ConnState' = "Connected" /\ ConnState # "Connected")
          => ConnState = "Connecting"]_vars
    /\ [][(ConnState' = "Connecting" /\ ConnState # "Connecting")
          => ConnState = "Disconnected"]_vars
    /\ []((res = "Disconnected" /\ ConnState = "Disconnected"
           /\ [](running /\ dev = "ready"))
          => <>(pc = "reading"))

\* C5: the device is claimed again after a session that ended by device
\* removal, the topology flag still true.
C5_Witness ==
    /\ ConnState = "Connected"
    /\ res = "Disconnected"
    /\ sinks_created
    /\ running

\* Where the main thread can be once Ctrl-C has arrived during a read.
AfterCancelInRead ==
    {"reading", "read_top", "read_sleep", "release", "connect_err", "drop",
     "exited"}

\* C6 as stated: after a cancellation that arrives during a blocked read the
\* reader returns Ok.
C6_ReaderReturnsOk ==
    (cancelAt = "reading" /\ pc \in {"release", "connect_err", "drop", "exited"})
        => res = "Ok"

\* C6 amended: after a cancellation that arrives during a blocked read, the
\* reader starts no further read; it returns Ok, unless the read in flight
\* ends with device-removed or with the fifth consecutive transport error,
\* which it returns; either way the supervisor goes to teardown with no
\* further locate_and_claim, relink or stream migration, and teardown's first
\* command sets the default output recorded at startup.
C6_CancelInRead ==
    /\ [](cancelAt = "reading" => pc \in AfterCancelInRead)
    /\ [][(cancelAt = "reading" /\ pc # "reading") => pc' # "reading"]_vars
    /\ []((cancelAt = "reading" /\ pc = "release") =>
            \/ res = "Ok"
            \/ res = "Disconnected" /\ lastOutcome = "NoDevice"
            \/ res = "TooManyErrors" /\ lastOutcome = "Error" /\ errRun = 5)
    /\ []((cancelAt = "reading" /\ pc = "exited") =>
            /\ RestoreAttempted
            /\ cleanupLog[1].arg = original_default_sink)
    /\ [][original_default_sink # "" =>
            original_default_sink' = original_default_sink]_vars

\* C6: cancelled during a read that then ended with device-removed; the
\* process has gone through teardown.
C6_Witness ==
    /\ cancelAt = "reading"
    /\ pc = "exited"
    /\ res = "Disconnected"
    /\ RestoreAttempted

\* C7: teardown issues set-default-sink with the sink recorded at startup
\* (a sink that was the default before the program changed anything), then
\* destroy Arctis_Game, then destroy Arctis_Chat, all three whatever the
\* earlier ones returned.
C7_TeardownSteps ==
    SupervisorStopped =>
        /\ Len(cleanupLog) = 3
        /\ cleanupLog[1].cmd = "set-default-sink"
        /\ cleanupLog[1].arg = original_default_sink
        /\ original_default_sink \in {SPEAKERS, HEADSET}
        /\ cleanupLog[2].cmd = "destroy" /\ cleanupLog[2].arg = GAME
        /\ cleanupLog[3].cmd = "destroy" /\ cleanupLog[3].arg = CHAT

\* C7: the first two steps failed and the third was still made.
C7_Witness ==
    /\ SupervisorStopped
    /\ Len(cleanupLog) = 3
    /\ ~cleanupLog[1].ok
    /\ ~cleanupLog[2].ok
    /\ cleanupLog[3].ok


\* C8: after a successful read, set_sink_volume has been called if and only
\* if the read returned at least 3 bytes and byte 0 is 0x45, and then for
\* Arctis_Game with byte 1 and next for Arctis_Chat with byte 2, as they
\* are; a read of another shape makes no call, and no successful read counts
\* as an error.
C8_VolumeCalls ==
    lastOutcome = "Ok" =>
        /\ (volCalls # <<>>) <=> (lastLen >= 3 /\ buf[1] = 69)
        /\ volCalls # <<>> => volCalls = << <<GAME, buf[2]>>, <<CHAT, buf[3]>> >>
        /\ consecutive_errors = 0

\* C8: a volume report with a game volume above 100 has been passed on.
C8_Witness ==
    /\ lastOutcome = "Ok"
    /\ lastLen >= 3
    /\ volCalls = << <<GAME, 200>>, <<CHAT, 69>> >>

\* C9: the reader has returned the too-many-errors result exactly when 5
\* transport errors came in a row with no success or timeout between them;
\* its session then ends in Disconnected.
C9_ErrorCeiling ==
    /\ [](errRun <= 5)
    /\ []((pc = "release" /\ res = "TooManyErrors") <=> errRun = 5)
    /\ [][(pc = "release" /\ res = "TooManyErrors" /\ pc' # pc)
          => (ConnState' = "Disconnected" /\ res' = "TooManyErrors")]_vars

\* C9: the reader ended on five errors in a row in a session in which an
\* earlier error run had been broken by a success or a timeout.
C9_Witness ==
    /\ pc = "release"
    /\ res = "TooManyErrors"
    /\ runBroken

\* C10: the counter is 0 right after every successful read, whatever its
\* shape, and after every timeout; it only ever holds the length of the
\* current run of transport errors.
C10_CounterReset ==
    /\ lastOutcome \in {"Ok", "Timeout"} => consecutive_errors = 0
    /\ consecutive_errors = errRun

\* C10: a zero-length read has ended an error run and the counter is 0.
C10_Witness ==
    /\ lastOutcome = "Ok"
    /\ lastLen = 0
    /\ runBroken
    /\ consecutive_errors = 0

\* C12: for every u8 p, byte 2 of the report hidapi_send_sidetone builds is
\* 0 if p < 30, 1 if 30 <= p < 60, 2 if 60 <= p < 80 and 3 if p >= 80 (bytes
\* 0 and 1 being 0x00 and 0x39), and the bucket never decreases as p grows.
C12_SidetoneBucket ==
    /\ loc.sidetone.sent # <<>> =>
         LET p == loc.sidetone.sent[1]
             d == loc.sidetone.data
         IN  /\ d[1] = 0 /\ d[2] = 57
             /\ p < 30 => d[3] = 0
             /\ (30 <= p /\ p < 60) => d[3] = 1
             /\ (60 <= p /\ p < 80) => d[3] = 2
             /\ p >= 80 => d[3] = 3
    /\ \A p \in 0..255, q \in 0..255 :
         p <= q => SidetoneBucket(p) <= SidetoneBucket(q)

\* C12: the report for 30 percent, the lowest value of bucket 1, was written.
C12_Witness ==
    /\ loc.sidetone.sent = <<30>>
    /\ loc.sidetone.data[3] = 1
    /\ loc.sidetone.res = "Ok"

\* Place of the first interface of class 3 in cfg, 0 when there is none.
FirstHid(cfg) ==
    LET hids == {i \in 1..Len(cfg) : Descriptor(cfg, i).class = 3}
    IN  IF hids = {} THEN 0 ELSE CHOOSE i \in hids : \A k \in hids : i <= k

\* The device has several interfaces of class 3, the first of which has an
\* inbound interrupt endpoint.
SeveralHid(cfg) ==
    /\ Cardinality({i \in 1..Len(cfg) : Descriptor(cfg, i).class = 3}) >= 2
    /\ FirstInInterrupt(Descriptor(cfg, FirstHid(cfg)).eps) # 0

\* C15 as stated: for a device with several HID-class interfaces,
\* usb_find_and_open returns the first of them in descriptor order with the
\* first inbound interrupt endpoint of that interface.
C15_FirstHidInterface ==
    (loc.result = "Ok" /\ SeveralHid(config)) =>
        LET d == Descriptor(config, FirstHid(config))
        IN  /\ loc.iface = d.num
            /\ loc.ep = d.eps[FirstInInterrupt(d.eps)].addr

\* No interface of class 3 of cfg has an inbound interrupt endpoint.
NoUsableHid(cfg) ==
    \A i \in 1..Len(cfg) :
        Descriptor(cfg, i).class = 3 =>
            FirstInInterrupt(Descriptor(cfg, i).eps) = 0

\* C16: when no HID-class interface of the matched device has an inbound
\* interrupt endpoint, usb_find_and_open fails with no open, no side-tone
\* write and no claim attempt, and the program never gets to a session; an
\* endpoint address it returns is that of the first inbound interrupt
\* endpoint of the HID-class interface it returns, never the default 0x84
\* left in place.
C16_NoHidNoOpen ==
    /\ NoUsableHid(config) =>
         /\ loc.pre = <<>>
         /\ loc.sidetone = NoSidetone
         /\ loc.claims = 0
         /\ loc.result \in {"none", "NotFound", "NoHidInterface"}
         /\ ~claimed
         /\ ConnState # "Connected"
    /\ loc.result = "NoHidInterface" => NoUsableHid(config) /\ pc = "tcr_err"
    /\ loc.iface # -1 =>
         /\ loc.ep # 132
         /\ \E i \in 1..Len(config) :
              LET d == Descriptor(config, i)
              IN  /\ d.class = 3
                  /\ d.num = loc.iface
                  /\ FirstInInterrupt(d.eps) # 0
                  /\ loc.ep = d.eps[FirstInInterrupt(d.eps)].addr

\* C16: the attached, claimable device has an interface of class 3 without an
\* inbound interrupt endpoint, and usb_find_and_open has failed on it.
C16_Witness ==
    /\ loc.result = "NoHidInterface"
    /\ dev = "ready"
    /\ \E i \in 1..Len(config) : config[i] = "hid_noin"

\* C17: usb_find_and_open makes at most 6 claim attempts on the opened
\* device; it returns Ok at the first attempt that succeeds and the claim
\* failure exactly when 6 attempts have failed; every attempt is preceded by
\* the driver query and, exactly when that reports an active driver, by a
\* detach.
C17_ClaimAttempts ==
    /\ loc.claims <= 6
    /\ loc.result = "Ok" =>
         loc.failed = loc.claims - 1 /\ claimed /\ pc = "relink"
    /\ loc.result = "ClaimFailed" <=> loc.failed = 6
    /\ (loc.result = "none" /\ loc.claims > 0) =>
         loc.failed = loc.claims /\ pc \in {"claim", "claim_sleep"}
    /\ loc.claims > 0 =>
         LET c == loc.calls
         IN  /\ c[1][1] = "kernel_driver_active"
             /\ c[Len(c)][1] = "claim_interface"
             /\ Len(c) = (IF c[1][2] = "active" THEN 3 ELSE 2)
             /\ Len(c) = 3 => c[2][1] = "detach_kernel_driver"

\* C17: the sixth attempt succeeded, after a detach that failed.
C17_Witness ==
    /\ loc.result = "Ok"
    /\ loc.claims = 6
    /\ loc.calls[2] = <<"detach_kernel_driver", "fail">>

\* C19: whenever usb_find_and_open has opened the device the side-tone
\* writer has been invoked, and that before any claim attempt; whatever the
\* writer did, the claim loop is entered next; and what usb_find_and_open
\* returns for an opened device follows from the claim attempts alone.
C19_SidetoneBeforeClaim ==
    /\ []((loc.pre # <<>> /\ loc.result # "OpenFailed") =>
            /\ loc.pre[1] = "open" /\ loc.pre[2] = "sidetone"
            /\ loc.sidetone.res # "notcalled")
    /\ [](loc.claims > 0 => loc.sidetone.res # "notcalled")
    /\ [][loc'.sidetone.res # loc.sidetone.res =>
            \/ loc' = NoLoc
            \/ pc = "tcr" /\ pc' = "claim" /\ loc'.claims = 0]_vars
    /\ []((loc.pre # <<>> /\ loc.result \notin {"OpenFailed", "none"}) =>
            \/ loc.result = "Ok" /\ loc.calls[Len(loc.calls)][2] = "ok"
            \/ loc.result = "ClaimFailed" /\ loc.failed = 6)

\* C19: the side-tone write failed and the interface was claimed all the
\* same.
C19_Witness ==
    /\ loc.result = "Ok"
    /\ loc.sidetone.res = "write"
    /\ loc.sidetone.sent = <<45>>
    /\ claimed

\* C11: when a found-sink relink pass follows another with no change of the
\* audio server's sinks and links between them, it makes no new link and
\* the links after it are those after the first; when all four links are
\* there, so that every pw-link call reports that its link exists, neither
\* link_sink_to_device call returns an error; either way the pass returns Ok
\* and the session goes on.
C11_RelinkIdempotent ==
    relinkRes.again =>
        /\ relinkRes.after = relinkRes.before
        /\ \A i \in 1..Len(relinkRes.results) : relinkRes.results[i] # "ok"
        /\ relinkRes.before = AllLinks =>
             /\ relinkRes.results = <<"exists", "exists", "exists", "exists">>
             /\ relinkRes.errs = 0
        /\ pc = "migrate"

\* C11: the second pass met four links that exist.
C11_Witness ==
    /\ relinkRes.again
    /\ relinkRes.before = AllLinks
    /\ relinkRes.after = AllLinks
    /\ relinkRes.results = <<"exists", "exists", "exists", "exists">>
    /\ relinkRes.errs = 0

\* C13: a read that ends with NoDevice makes read_loop return the
\* disconnected error at once, the counter left as it was, whatever it was,
\* and no read follows in that session.
C13_NoDeviceReturns ==
    /\ [][(lastOutcome' = "NoDevice" /\ lastOutcome # "NoDevice") =>
            /\ pc = "reading" /\ pc' = "release"
            /\ res' = "Disconnected"
            /\ consecutive_errors' = consecutive_errors]_vars
    /\ [](lastOutcome = "NoDevice" => pc = "release" /\ res = "Disconnected")
    /\ [][pc = "release" =>
            pc' \notin {"reading", "read_top", "read_sleep"}]_vars

\* C13: the device went away after four transport errors in a row.
C13_Witness ==
    /\ lastOutcome = "NoDevice"
    /\ pc = "release"
    /\ res = "Disconnected"
    /\ consecutive_errors = 4

\* The retry sleeps of the five loops.
Sleeps ==
    {"startup_sleep", "connect_sleep", "tcr_sleep", "claim_sleep",
     "relink_sleep", "read_sleep"}

\* C14 as stated: once the flag is set (running false), no loop begins
\* another sleep, another claim attempt or another read.
C14_EveryLoopPolls ==
    [][~running =>
         /\ pc' \in Sleeps => pc' = pc
         /\ loc'.claims <= loc.claims
         /\ pc' = "reading" => pc = "reading"]_vars

\* C18: the interface is claimed exactly during a session; it is released
\* by one release_interface call, made after read_loop has returned (Ok on
\* cancellation, disconnected, or too many errors) and before the next
\* usb_find_and_open; whether that call succeeds or fails, the session hands
\* the reader's result to the supervisor.
C18_ReleaseOnce ==
    /\ [](claimed <=> ConnState = "Connected")
    /\ [](Len(releaseLog) <= 1)
    /\ [](claimed => releaseLog = <<>>)
    /\ [][(releaseLog' # releaseLog /\ releaseLog' # <<>>) =>
            /\ claimed /\ ~claimed'
            /\ pc = "release"]_vars
    /\ [][(claimed /\ ~claimed') =>
            /\ pc = "release"
            /\ Len(releaseLog') = 1
            /\ res \in {"Ok", "Disconnected", "TooManyErrors"}
            /\ res' = res
            /\ pc' = (IF res = "Ok" THEN "drop" ELSE "connect_err")]_vars
    /\ [][pc' \in {"tcr", "claim"} => ~claimed /\ ~claimed']_vars

\* C18: the release failed after a session ended by cancellation, and the
\* session still reports Ok.
C18_Witness ==
    /\ releaseLog = <<FALSE>>
    /\ res = "Ok"
    /\ pc = "drop"
    /\ ~claimed

\* C20 as stated: every stream move_all_inputs_to has listed gets a move
\* command, whatever the earlier moves did.
C20_EveryStreamTried == mig.listed => mig.tried = streams

\* C21: setup_virtual_sinks stores sinks_created = TRUE only after the
\* physical sink was found, both virtual sinks were created, all four links
\* were made or already existed, and Arctis_Game was set as the default sink;
\* a call that fails at discovery, creation or linking returns an error with
\* the flag still false and none of the later steps attempted; until a call
\* has returned Ok the flag is false.
C21_FlagAfterFullSetup ==
    /\ (pc \in {"new", "startup", "setup", "startup_sleep"} => ~sinks_created)
    /\ (setupRes.res = "Ok" =>
          /\ sinks_created
          /\ setupRes.steps = SetupSteps
          /\ setupRes.game /\ setupRes.chat
          /\ setupRes.links = AllLinks
          /\ Len(setupRes.linkResults) = 4
          /\ \A i \in 1..Len(setupRes.linkResults) :
                setupRes.linkResults[i] \in {"ok", "exists"}
          /\ setupRes.def = GAME)
    /\ (setupRes.res = "Err" =>
          /\ ~sinks_created
          /\ setupRes.steps = SubSeq(SetupSteps, 1, Len(setupRes.steps))
          /\ (Len(setupRes.steps) < 8 =>
                /\ Len(setupRes.steps) \in {1, 4, 5, 6, 7}
                /\ setupRes.sd = "none"
                /\ (Len(setupRes.steps) < 6 => setupRes.linkResults = <<>>)
                /\ (Len(setupRes.steps) \in {6, 7} =>
                      \E i \in 1..Len(setupRes.linkResults) :
                         setupRes.linkResults[i] = "fail")))

\* Where the main thread is while usb_find_and_open is being called or has
\* been called in the current connection attempt.
LocatorInvoked ==
    \/ pc \in {"tcr", "claim", "claim_sleep"}
    \/ loc # NoLoc
    \/ claimed

\* C22: usb_find_and_open is never invoked before setup_virtual_sinks has
\* succeeded (sinks_created true); and when Ctrl-C arrives before that, in
\* the startup loop, the supervisor never attempts to find or claim the
\* device, and under fair scheduling it ends in teardown, run once.
C22_NoClaimBeforeTopology ==
    /\ [](LocatorInvoked => sinks_created)
    /\ [][(cancelAt' = "startup" /\ cancelAt # "startup")
          => ~sinks_created]_vars
    /\ [](cancelAt = "startup"
          => /\ ~LocatorInvoked
             /\ pc \in {"startup", "setup", "startup_sleep", "connect", "drop",
                        "exited"})
    /\ (cancelAt = "startup") ~> (pc = "exited" /\ cleanupCount = 1)

\* C22: Ctrl-C arrived while setup_virtual_sinks was running, the setup then
\* succeeded with the headset ready to be claimed, and the program has exited
\* without a claim attempt.
C22_Witness ==
    /\ cancelAt = "startup"
    /\ pc = "exited"
    /\ sinks_created
    /\ dev = "ready"
    /\ loc = NoLoc

\* C23: relink_virtual_sinks_with_retry always hands over to the stream
\* migration, whether it returned Ok (a link that failed included), Err
\* because the flag was unset, or Err because the sink was not found in
\* RETRIES attempts; the migration is followed by the call of read_loop with
\* the interface still claimed and no session result set; and the relink is
\* entered only from a claim that has just succeeded.
C23_RelinkFailureNotFatal ==
    /\ [][(pc \in {"relink", "relink_sleep"}
           /\ pc' \notin {"relink", "relink_sleep"})
          => /\ pc' = "migrate"
             /\ relinkRes'.ret \in {"Ok", "Shutdown", "NotFound"}
             /\ claimed' /\ res' = res]_vars
    /\ [][(relinkRes'.ret = "NotFound" /\ relinkRes.ret # "NotFound")
          => pc = "relink_sleep" /\ attempt = RETRIES]_vars
    /\ [](pc = "relink_sleep" => attempt \in 1..RETRIES)
    /\ [](relinkRes.ret = "Shutdown" => ~running)
    /\ [][(pc = "migrate" /\ pc' # pc)
          => /\ pc' = "read_top"
             /\ mig'.res \in {"Ok", "Err"}
             /\ mig'.relink = relinkRes.ret
             /\ claimed']_vars
    /\ [][(pc = "read_top" /\ pc' # pc)
          => pc' \in {"reading", "release"} /\ (running => pc' = "reading")]_vars
    /\ [][(pc' = "relink" /\ pc \notin {"relink", "relink_sleep"})
          => pc = "claim" /\ ~claimed /\ claimed']_vars

\* C23: the physical sink was not found in RETRIES attempts, the streams
\* were moved all the same and read_loop is being entered.
C23_Witness ==
    /\ pc = "read_top"
    /\ mig.relink = "NotFound"
    /\ mig.tried # {}
    /\ running
    /\ claimed

====
